---- MODULE Spec2Model ----
(***************************************************************************)
(* A model of the buildpack packaging and build orchestration code of      *)
(* pack:                                                                   *)
(*   - internal/buildpackage/builder.go : PackageBuilder (SetBuildpack,    *)
(*     AddDependency, Save)                                                *)
(*   - build.go (package pack)          : Client.Build and its helpers     *)
(*     (validateMixins, validateCommonMixins, findMissing,                 *)
(*     assembleAvailableMixins, allBuildpacks, createEphemeralBuilder)     *)
(*                                                                         *)
(* Four specifications share the module:                                   *)
(*   SpecMixins  - the pure mixin functions applied to bounded inputs      *)
(*   SpecStacks  - stack.MergeCompatible applied to bounded stack lists    *)
(*   SpecPackage - one PackageBuilder: its mutators and the steps of Save  *)
(*   SpecBuild   - one Client.Build invocation, step by step               *)
(***************************************************************************)
EXTENDS Integers, Sequences, FiniteSets, TLC

VARIABLES
    \* ---- SpecMixins: inputs and output of the pure mixin functions
    mBuilder,        \* builderImage view: [CommonMixins, BuildOnlyMixins]
    mRun,            \* runImage view: [Name, CommonMixins, RunOnlyMixins]
    mCall,           \* which function was applied last ("none" before any)
    mOut,            \* what it returned
    mA,              \* SpecStacks: the first stack list given to MergeCompatible
    mB,              \* SpecStacks: the second
    \* ---- SpecPackage: PackageBuilder fields and the position inside Save
    buildpack,       \* p.buildpack (Nil until SetBuildpack)
    dependencies,    \* p.dependencies
    spc,             \* position of the running Save ("idle" before the call)
    stacks,          \* Save's local `stacks`
    bpIdx,           \* index of the loop over append(p.dependencies, p.buildpack)
    bpLayers,        \* Save's local `bpLayers`
    newImageCalls,   \* number of ImageFactory.NewImage calls
    image,           \* the handle NewImage returned (NilImage before)
    imgLabels,       \* labels set on the image handle
    imgLayers,       \* layers added to the image handle
    imgSaveCalls,    \* number of image.Save calls
    imgSaved,        \* number of image.Save calls that succeeded
    saveResult,      \* what Save returned: [image, err]
    \* ---- SpecBuild: one Client.Build invocation
    opts,            \* BuildOptions: [Builder, RunImage, Buildpacks]
    builderImage,    \* the builder image the fetcher holds for opts.Builder
    runImage,        \* the run image the fetcher holds for the resolved name
    bpc,             \* position of Build ("start" before its first statement)
    rawBuilderImage, \* the handle Fetch returned (its Name changes on Rename)
    runImageName,    \* Build's local runImageName
    fetchedBPs,      \* Build's local fetchedBPs
    group,           \* Build's local group (an OrderEntry)
    ephemeralBuilderImage, \* the handle createEphemeralBuilder returned
    daemon,          \* the local image store: name -> image content
    deferred,        \* image names whose removal Build has deferred
    removeAttempts,  \* docker.ImageRemove calls: <<name, succeeded>>
    lifecycleCalls,  \* number of lifecycle.Execute calls
    fetches,         \* imageFetcher.Fetch calls, by image name
    downloads,       \* downloader.Download calls, by token
    steps,           \* the steps of Build entered so far, in order
    buildResult      \* what Build returned

pureVars == <<mBuilder, mRun, mCall, mOut, mA, mB>>
pkgVars  == <<buildpack, dependencies, spc, stacks, bpIdx, bpLayers,
              newImageCalls, image, imgLabels, imgLayers, imgSaveCalls, imgSaved,
              saveResult>>
buildVars == <<opts, builderImage, runImage, bpc, rawBuilderImage, runImageName,
               fetchedBPs, group, ephemeralBuilderImage, daemon, deferred,
               removeAttempts, lifecycleCalls, fetches, downloads, steps,
               buildResult>>
vars == <<pureVars, pkgVars, buildVars>>

----------------------------------------------------------------------------
(* Bounds *)

\* longest mixin list drawn for an image view in SpecMixins
MaxLen == 2
\* most dependencies added to one PackageBuilder
MaxDeps == 2
\* longest stack list drawn for MergeCompatible in SpecStacks
MaxStacks == 2

----------------------------------------------------------------------------
(* Values *)

Nil == "nil"

\* a nil error
NoError == [kind |-> "nil"]

Mixins == {"A", "B"}

\* strings are compared by sort.Strings; the model's mixin names in that order
MixinRank(m) == IF m = "A" THEN 1 ELSE 2

SeqsUpTo(S, n) == UNION {[1..k -> S] : k \in 0..n}

Range(s) == {s[i] : i \in DOMAIN s}

\* stringset.FromSlice: the set of the elements of a slice
FromSlice(s) == Range(s)

----------------------------------------------------------------------------
(* build.go: the mixin functions *)

RECURSIVE Insert(_, _)
\* one step of sort.Strings: m put before the first element that ranks above it
Insert(m, s) ==
    IF s = <<>> THEN <<m>>
    ELSE IF MixinRank(m) <= MixinRank(Head(s)) THEN <<m>> \o s
    ELSE <<Head(s)>> \o Insert(m, Tail(s))

RECURSIVE SortStrings(_)
\* sort.Strings
SortStrings(s) == IF s = <<>> THEN <<>> ELSE Insert(Head(s), SortStrings(Tail(s)))

\* findMissing with the test of line 220 inverted
findMissing_Present(actual, required) ==
    LET actualSet == FromSlice(actual)
    IN  SelectSeq(required, LAMBDA m : m \in actualSet)

\* func findMissing(actual, required []string) []string
findMissing(actual, required) ==
    LET actualSet == FromSlice(actual)
    IN  SelectSeq(required, LAMBDA m : m \notin actualSet)

\* validateCommonMixins with the two images taken the other way round
validateCommonMixins_Swapped(builderImg, runImg) ==
    LET missing == findMissing(builderImg.CommonMixins, runImg.CommonMixins)
    IN  IF Len(missing) > 0
        THEN [kind |-> "MissingRequiredMixins", image |-> runImg.Name,
              missing |-> SortStrings(missing)]
        ELSE NoError

\* func (c *Client) validateCommonMixins(builderImg, runImg) error
validateCommonMixins(builderImg, runImg) ==
    LET missing == findMissing(runImg.CommonMixins, builderImg.CommonMixins)
    IN  IF Len(missing) > 0
        THEN [kind |-> "MissingRequiredMixins", image |-> runImg.Name,
              missing |-> SortStrings(missing)]
        ELSE NoError

\* assembleAvailableMixins as the plain union of the two images' mixins
assembleAvailableMixins_Union(builderImg, runImg) ==
    (builderImg.CommonMixins \o runImg.CommonMixins)
        \o (builderImg.BuildOnlyMixins \o runImg.RunOnlyMixins)

\* func assembleAvailableMixins(builderImg, runImg) []string
assembleAvailableMixins(builderImg, runImg) ==
    LET bMixins == FromSlice(builderImg.CommonMixins)
        inBoth  == SelectSeq(runImg.CommonMixins, LAMBDA m : m \in bMixins)
    IN  inBoth \o (builderImg.BuildOnlyMixins \o runImg.RunOnlyMixins)

----------------------------------------------------------------------------
(* SpecMixins: the mixin functions applied to every bounded pair of images *)

MixinLists == SeqsUpTo(Mixins, MaxLen)

CallFindMissing ==
    /\ mCall' = "findMissing"
    /\ mOut' = findMissing(mRun.CommonMixins, mBuilder.CommonMixins)
    /\ UNCHANGED <<mBuilder, mRun, mA, mB>>

CallValidateCommonMixins ==
    /\ mCall' = "validateCommonMixins"
    /\ mOut' = validateCommonMixins(mBuilder, mRun)
    /\ UNCHANGED <<mBuilder, mRun, mA, mB>>

CallAssembleAvailableMixins ==
    /\ mCall' = "assembleAvailableMixins"
    /\ mOut' = assembleAvailableMixins(mBuilder, mRun)
    /\ UNCHANGED <<mBuilder, mRun, mA, mB>>

----------------------------------------------------------------------------
(* Buildpack descriptors given to a PackageBuilder *)

StackIDs == {"stack.id.1", "stack.id.2"}

Info(id, version) == [ID |-> id, Version |-> version]

Stack(id, mixins) == [ID |-> id, Mixins |-> mixins]

\* an order with one group that refers to bp.1
SomeOrder == << <<Info("bp.1.id", "bp.1.version")>> >>

Descriptor(info, stks, order) == [Info |-> info, Stacks |-> stks, Order |-> order]

\* the buildpacks a caller may hand to SetBuildpack and AddDependency
Buildpacks ==
    { Descriptor(Info("bp.1.id", "bp.1.version"),
                 <<Stack("stack.id.1", {"A"})>>, <<>>),
      Descriptor(Info("bp.1.id", "bp.1.version"),
                 <<Stack("stack.id.2", {}), Stack("stack.id.1", {})>>, <<>>),
      Descriptor(Info("bp.2.id", "bp.2.version"),
                 <<Stack("stack.id.1", {}), Stack("stack.id.2", {})>>, <<>>),
      Descriptor(Info("bp.3.id", "bp.3.version"),
                 <<Stack("stack.id.1", {"B"})>>, <<>>),
      Descriptor(Info("bp.4.id", "bp.4.version"),
                 <<Stack("stack.id.2", {})>>, <<>>),
      Descriptor(Info("bp.5.id", "bp.5.version"),
                 <<Stack("stack.id.1", {"A", "B"})>>, <<>>),
      Descriptor(Info("bp.8.id", "bp.8.version"),
                 <<Stack("stack.id.1", {"A"}), Stack("stack.id.1", {"A"})>>, <<>>),
      Descriptor(Info("meta.id", "meta.version"), <<>>, SomeOrder),
      Descriptor(Info("empty.id", "empty.version"), <<>>, <<>>) }

\* p.buildpack before SetBuildpack
NilBuildpack == [nil |-> TRUE]

StackIDsOf(stks) == {stks[i].ID : i \in DOMAIN stks}

MixinsFor(stks, id) == UNION {stks[i].Mixins : i \in {j \in DOMAIN stks : stks[j].ID = id}}

\* MergeCompatible with the mixins of the first list kept as they are
MergeCompatible_FirstMixins(a, b) == SelectSeq(a, LAMBDA s : s.ID \in StackIDsOf(b))

\* stack.MergeCompatible: the stacks whose ID is in both lists, each with the
\* union of the mixins the two lists declare for it
MergeCompatible(a, b) ==
    LET kept == SelectSeq(a, LAMBDA s : s.ID \in StackIDsOf(b))
    IN  [i \in 1..Len(kept) |->
            Stack(kept[i].ID, kept[i].Mixins \cup MixinsFor(b, kept[i].ID))]

\* the mixin sets of the stacks drawn in SpecStacks
StackMixinSets == {{}, {"A"}, {"B"}}

\* the stack lists drawn in SpecStacks, lists that repeat an ID included
StackLists ==
    SeqsUpTo({Stack(id, ms) : id \in StackIDs, ms \in StackMixinSets}, MaxStacks)

\* builder.go:57: stack.MergeCompatible(stacks, bpd.Stacks), on two given lists
CallMergeCompatible ==
    /\ mCall' = "MergeCompatible"
    /\ mOut' = MergeCompatible(mA, mB)
    /\ UNCHANGED <<mBuilder, mRun, mA, mB>>

RECURSIVE MergeDependencies_FromOwnStacks(_, _, _, _)
\* MergeDependencies with each dependency merged with the buildpack's own
\* stacks, not with the stacks merged so far
MergeDependencies_FromOwnStacks(bp, deps, stks, i) ==
    IF i > Len(deps) THEN [err |-> NoError, stacks |-> stks]
    ELSE LET merged == MergeCompatible(bp.Stacks, deps[i].Stacks)
         IN  IF Len(merged) = 0
             THEN [err |-> [kind |-> "NoCommonStack", buildpack |-> bp.Info,
                            from |-> deps[i].Info],
                   stacks |-> merged]
             ELSE MergeDependencies_FromOwnStacks(bp, deps, merged, i + 1)

RECURSIVE MergeDependencies(_, _, _, _)
\* builder.go:55-65, from dependency i on: the merged stacks, or the error of
\* the first dependency that leaves no stack
MergeDependencies(bp, deps, stks, i) ==
    IF i > Len(deps) THEN [err |-> NoError, stacks |-> stks]
    ELSE LET merged == MergeCompatible(stks, deps[i].Stacks)
         IN  IF Len(merged) = 0
             THEN [err |-> [kind |-> "NoCommonStack", buildpack |-> bp.Info,
                            from |-> deps[i].Info],
                   stacks |-> merged]
             ELSE MergeDependencies(bp, deps, merged, i + 1)

\* ValidateSave without the check that a buildpack was set
ValidateSave_NoNilCheck(bp, deps) ==
    IF bp = NilBuildpack
    THEN [err |-> NoError, stacks |-> <<>>]
    ELSE IF Len(bp.Stacks) = 0 /\ Len(bp.Order) = 0
    THEN [err |-> [kind |-> "NoStackNoOrder", buildpack |-> bp.Info], stacks |-> bp.Stacks]
    ELSE MergeDependencies(bp, deps, bp.Stacks, 1)

\* ValidateSave with the Order left out of the check of line 48
ValidateSave_OrderNotLookedAt(bp, deps) ==
    IF bp = NilBuildpack
    THEN [err |-> [kind |-> "BuildpackMustBeSet"], stacks |-> <<>>]
    ELSE IF Len(bp.Stacks) = 0
    THEN [err |-> [kind |-> "NoStackNoOrder", buildpack |-> bp.Info], stacks |-> bp.Stacks]
    ELSE MergeDependencies(bp, deps, bp.Stacks, 1)

\* builder.go:40-65: what Save decides before it creates the image
ValidateSave(bp, deps) ==
    IF bp = NilBuildpack
    THEN [err |-> [kind |-> "BuildpackMustBeSet"], stacks |-> <<>>]
    ELSE IF Len(bp.Stacks) = 0 /\ Len(bp.Order) = 0
    THEN [err |-> [kind |-> "NoStackNoOrder", buildpack |-> bp.Info], stacks |-> bp.Stacks]
    ELSE MergeDependencies(bp, deps, bp.Stacks, 1)

\* the errors of builder.go:40-65
ValidationErrorKinds == {"BuildpackMustBeSet", "NoStackNoOrder", "NoCommonStack"}

\* dist.BuildpackToLayerTar: the layer that holds the buildpack's files (its
\* descriptor stands for them) under /cnb/buildpacks/<id>/<version>
BuildpackToLayerTar(bp) ==
    [dir |-> <<"cnb", "buildpacks", bp.Info.ID, bp.Info.Version>>, content |-> bp]

\* dist.LayerDiffID: the digest of a layer's content
LayerDiffID(layer) == <<"sha256", layer.dir, layer.content>>

\* a map with key k bound to v
MapSet(m, k, v) == [x \in DOMAIN m \cup {k} |-> IF x = k THEN v ELSE m[x]]

EmptyMap == [x \in {} |-> Nil]

\* dist.AddBuildpackToLayersMD: bpLayers[id][version] = {stacks, order, diffID}
AddBuildpackToLayersMD(layers, bp, diffID) ==
    MapSet(layers, bp.Info,
           [Stacks |-> bp.Stacks, Order |-> bp.Order, LayerDiffID |-> diffID])

MetadataLabel == "io.buildpacks.buildpackage.metadata"

BuildpackLayersLabel == "io.buildpacks.buildpack.layers"

NoResult == [returned |-> FALSE]

Returned(img, err) == [returned |-> TRUE, image |-> img, err |-> err]

\* append(p.dependencies, p.buildpack)
AllBuildpacks == Append(dependencies, buildpack)

NilImage == [nil |-> TRUE]

----------------------------------------------------------------------------
(* SpecPackage: internal/buildpackage/builder.go *)

\* what a step of Save leaves alone unless it says otherwise
BuilderUnchanged == UNCHANGED <<buildpack, dependencies>>

\* Save returns (nil, err)
Fail(err) ==
    /\ spc' = "returned"
    /\ saveResult' = Returned(NilImage, err)

\* func (p *PackageBuilder) SetBuildpack(buildpack dist.Buildpack)
SetBuildpack ==
    /\ spc = "idle"
    /\ \E bp \in Buildpacks : buildpack' = bp
    /\ UNCHANGED <<dependencies, spc, stacks, bpIdx, bpLayers, newImageCalls,
                   image, imgLabels, imgLayers, imgSaveCalls, imgSaved, saveResult>>

\* func (p *PackageBuilder) AddDependency(buildpack dist.Buildpack)
AddDependency ==
    /\ spc = "idle"
    /\ Len(dependencies) < MaxDeps
    /\ \E bp \in Buildpacks : dependencies' = Append(dependencies, bp)
    /\ UNCHANGED <<buildpack, spc, stacks, bpIdx, bpLayers, newImageCalls,
                   image, imgLabels, imgLayers, imgSaveCalls, imgSaved, saveResult>>

\* SaveValidate with the image created before the checks are made
SaveValidate_AfterNewImage ==
    /\ spc = "idle"
    /\ newImageCalls' = newImageCalls + 1
    /\ image' = [Name |-> "some/package", local |-> TRUE]
    /\ LET v == ValidateSave(buildpack, dependencies)
       IN  /\ stacks' = v.stacks
           /\ IF v.err # NoError
              THEN Fail(v.err)
              ELSE /\ spc' = "SetMetadataLabel"
                   /\ UNCHANGED saveResult
    /\ BuilderUnchanged
    /\ UNCHANGED <<bpIdx, bpLayers, imgLabels, imgLayers, imgSaveCalls, imgSaved>>

\* Save, builder.go:39-65: the call and its checks of the buildpack and stacks
SaveValidate ==
    /\ spc = "idle"
    /\ LET v == ValidateSave(buildpack, dependencies)
       IN  /\ stacks' = v.stacks
           /\ IF v.err # NoError
              THEN Fail(v.err)
              ELSE /\ spc' = "NewImage"
                   /\ UNCHANGED saveResult
    /\ BuilderUnchanged
    /\ UNCHANGED <<bpIdx, bpLayers, newImageCalls, image, imgLabels, imgLayers,
                   imgSaveCalls, imgSaved>>

\* Save, builder.go:67-70: p.imageFactory.NewImage(repoName, !publish)
SaveNewImage ==
    /\ spc = "NewImage"
    /\ newImageCalls' = newImageCalls + 1
    /\ \E publish \in BOOLEAN, ok \in BOOLEAN :
          IF ok
          THEN /\ image' = [Name |-> "some/package", local |-> ~publish]
               /\ spc' = "SetMetadataLabel"
               /\ UNCHANGED saveResult
          ELSE /\ Fail([kind |-> "creating image"])
               /\ UNCHANGED image
    /\ BuilderUnchanged
    /\ UNCHANGED <<stacks, bpIdx, bpLayers, imgLabels, imgLayers, imgSaveCalls, imgSaved>>

\* SaveSetMetadataLabel with the buildpack's own stacks written to the label
SaveSetMetadataLabel_OwnStacks ==
    /\ spc = "SetMetadataLabel"
    /\ \E ok \in BOOLEAN :
          IF ok
          THEN /\ imgLabels' = MapSet(imgLabels, MetadataLabel,
                                      [BuildpackInfo |-> buildpack.Info,
                                       Stacks |-> buildpack.Stacks])
               /\ spc' = "TempDir"
               /\ UNCHANGED saveResult
          ELSE /\ Fail([kind |-> "set label", label |-> MetadataLabel])
               /\ UNCHANGED imgLabels
    /\ BuilderUnchanged
    /\ UNCHANGED <<stacks, bpIdx, bpLayers, newImageCalls, image, imgLayers,
                   imgSaveCalls, imgSaved>>

\* Save, builder.go:72-77: dist.SetLabel(image, MetadataLabel, &Metadata{...})
SaveSetMetadataLabel ==
    /\ spc = "SetMetadataLabel"
    /\ \E ok \in BOOLEAN :
          IF ok
          THEN /\ imgLabels' = MapSet(imgLabels, MetadataLabel,
                                      [BuildpackInfo |-> buildpack.Info, Stacks |-> stacks])
               /\ spc' = "TempDir"
               /\ UNCHANGED saveResult
          ELSE /\ Fail([kind |-> "set label", label |-> MetadataLabel])
               /\ UNCHANGED imgLabels
    /\ BuilderUnchanged
    /\ UNCHANGED <<stacks, bpIdx, bpLayers, newImageCalls, image, imgLayers,
                   imgSaveCalls, imgSaved>>

\* the loop of builder.go:86 goes to its next buildpack, or ends
NextBuildpack(i) ==
    IF i <= Len(AllBuildpacks) THEN "LayerTar" ELSE "SetLayersLabel"

\* Save, builder.go:79-85: ioutil.TempDir, bpLayers := dist.BuildpackLayers{}
SaveTempDir ==
    /\ spc = "TempDir"
    /\ \E ok \in BOOLEAN :
          IF ok
          THEN /\ bpLayers' = EmptyMap
               /\ bpIdx' = 1
               /\ spc' = NextBuildpack(1)
               /\ UNCHANGED saveResult
          ELSE /\ Fail([kind |-> "temp dir"])
               /\ UNCHANGED <<bpLayers, bpIdx>>
    /\ BuilderUnchanged
    /\ UNCHANGED <<stacks, newImageCalls, image, imgLabels, imgLayers,
                   imgSaveCalls, imgSaved>>

\* Save, builder.go:87-90: dist.BuildpackToLayerTar(tmpDir, bp)
SaveLayerTar ==
    /\ spc = "LayerTar"
    /\ \E ok \in BOOLEAN :
          IF ok
          THEN /\ spc' = "AddLayer"
               /\ UNCHANGED saveResult
          ELSE Fail([kind |-> "layer tar", buildpack |-> AllBuildpacks[bpIdx].Info])
    /\ BuilderUnchanged
    /\ UNCHANGED <<stacks, bpIdx, bpLayers, newImageCalls, image, imgLabels,
                   imgLayers, imgSaveCalls, imgSaved>>

\* Save, builder.go:92-94: image.AddLayer(bpLayerTar)
SaveAddLayer ==
    /\ spc = "AddLayer"
    /\ \E ok \in BOOLEAN :
          IF ok
          THEN /\ imgLayers' = Append(imgLayers, BuildpackToLayerTar(AllBuildpacks[bpIdx]))
               /\ spc' = "DiffID"
               /\ UNCHANGED saveResult
          ELSE /\ Fail([kind |-> "adding layer tar",
                        buildpack |-> AllBuildpacks[bpIdx].Info])
               /\ UNCHANGED imgLayers
    /\ BuilderUnchanged
    /\ UNCHANGED <<stacks, bpIdx, bpLayers, newImageCalls, image, imgLabels,
                   imgSaveCalls, imgSaved>>

\* SaveDiffID with the merged stacks of the package recorded for the buildpack
SaveDiffID_MergedStacks ==
    /\ spc = "DiffID"
    /\ \E ok \in BOOLEAN :
          IF ok
          THEN /\ bpLayers' = AddBuildpackToLayersMD(bpLayers,
                                  [AllBuildpacks[bpIdx] EXCEPT !.Stacks = stacks],
                                  LayerDiffID(BuildpackToLayerTar(AllBuildpacks[bpIdx])))
               /\ bpIdx' = bpIdx + 1
               /\ spc' = NextBuildpack(bpIdx + 1)
               /\ UNCHANGED saveResult
          ELSE /\ Fail([kind |-> "getting content hashes",
                        buildpack |-> AllBuildpacks[bpIdx].Info])
               /\ UNCHANGED <<bpLayers, bpIdx>>
    /\ BuilderUnchanged
    /\ UNCHANGED <<stacks, newImageCalls, image, imgLabels, imgLayers,
                   imgSaveCalls, imgSaved>>

\* Save, builder.go:96-105: dist.LayerDiffID, dist.AddBuildpackToLayersMD
SaveDiffID ==
    /\ spc = "DiffID"
    /\ \E ok \in BOOLEAN :
          IF ok
          THEN /\ bpLayers' = AddBuildpackToLayersMD(bpLayers, AllBuildpacks[bpIdx],
                                  LayerDiffID(BuildpackToLayerTar(AllBuildpacks[bpIdx])))
               /\ bpIdx' = bpIdx + 1
               /\ spc' = NextBuildpack(bpIdx + 1)
               /\ UNCHANGED saveResult
          ELSE /\ Fail([kind |-> "getting content hashes",
                        buildpack |-> AllBuildpacks[bpIdx].Info])
               /\ UNCHANGED <<bpLayers, bpIdx>>
    /\ BuilderUnchanged
    /\ UNCHANGED <<stacks, newImageCalls, image, imgLabels, imgLayers,
                   imgSaveCalls, imgSaved>>

\* SaveSetLayersLabel with the error of SetLabel dropped
SaveSetLayersLabel_ErrorDropped ==
    /\ spc = "SetLayersLabel"
    /\ \E ok \in BOOLEAN :
          /\ imgLabels' = IF ok THEN MapSet(imgLabels, BuildpackLayersLabel, bpLayers)
                          ELSE imgLabels
          /\ spc' = "ImageSave"
          /\ UNCHANGED saveResult
    /\ BuilderUnchanged
    /\ UNCHANGED <<stacks, bpIdx, bpLayers, newImageCalls, image, imgLayers,
                   imgSaveCalls, imgSaved>>

\* Save, builder.go:107-109: dist.SetLabel(image, dist.BuildpackLayersLabel, bpLayers)
SaveSetLayersLabel ==
    /\ spc = "SetLayersLabel"
    /\ \E ok \in BOOLEAN :
          IF ok
          THEN /\ imgLabels' = MapSet(imgLabels, BuildpackLayersLabel, bpLayers)
               /\ spc' = "ImageSave"
               /\ UNCHANGED saveResult
          ELSE /\ Fail([kind |-> "set label", label |-> BuildpackLayersLabel])
               /\ UNCHANGED imgLabels
    /\ BuilderUnchanged
    /\ UNCHANGED <<stacks, bpIdx, bpLayers, newImageCalls, image, imgLayers,
                   imgSaveCalls, imgSaved>>

\* Save, builder.go:111-115: image.Save(), return image, nil
SaveImageSave ==
    /\ spc = "ImageSave"
    /\ imgSaveCalls' = imgSaveCalls + 1
    /\ \E ok \in BOOLEAN :
          IF ok
          THEN /\ imgSaved' = imgSaved + 1
               /\ spc' = "returned"
               /\ saveResult' = Returned(image, NoError)
          ELSE /\ Fail([kind |-> "image save"])
               /\ UNCHANGED imgSaved
    /\ BuilderUnchanged
    /\ UNCHANGED <<stacks, bpIdx, bpLayers, newImageCalls, image, imgLabels, imgLayers>>

----------------------------------------------------------------------------
(* Values of a build: images, requested buildpack tokens *)

\* most tokens in opts.Buildpacks
MaxTokens == 2

RECURSIVE SortSet(_)
\* the elements of a set of mixins as a sorted list
SortSet(S) ==
    IF S = {} THEN <<>>
    ELSE LET m == CHOOSE x \in S : \A y \in S : MixinRank(x) <= MixinRank(y)
         IN  <<m>> \o SortSet(S \ {m})

\* an entry of the builder.BuildpackLayers index
Embedded(id, version, stks, order) == Descriptor(Info(id, version), stks, order)

BuilderImageOf(stackID, common, buildOnly, layers, order, defaultRun) ==
    [StackID |-> stackID, CommonMixins |-> common, BuildOnlyMixins |-> buildOnly,
     BuildpackLayers |-> layers, Order |-> order, RunImage |-> defaultRun]

\* the builder images the fetcher may hold for opts.Builder
BuilderImages ==
    { BuilderImageOf("stack.id.1", <<"A">>, <<>>,
                   {Embedded("bp.1.id", "bp.1.version", <<Stack("stack.id.1", {"A"})>>, <<>>)},
                   SomeOrder, "run/default"),
      BuilderImageOf("stack.id.1", <<"B", "A">>, <<>>,
                   {Embedded("bp.3.id", "bp.3.version", <<Stack("stack.id.1", {"B"})>>, <<>>)},
                   SomeOrder, "run/default"),
      BuilderImageOf("stack.id.1", <<>>, <<"B">>,
                   {Embedded("meta.id", "meta.version", <<>>, SomeOrder),
                    Embedded("bp.5.id", "bp.5.version", <<Stack("stack.id.1", {"A", "B"})>>, <<>>)},
                   <<>>, ""),
      BuilderImageOf("stack.id.1", <<>>, <<>>,
                   {Embedded("bp.2.id", "bp.2.version",
                             <<Stack("stack.id.1", {}), Stack("stack.id.2", {})>>, <<>>)},
                   SomeOrder, "run/default") }

\* the run images the fetcher may hold for a (name-less) run image reference
RunImageContents ==
    { [StackID |-> "stack.id.1", CommonMixins |-> <<"A">>, RunOnlyMixins |-> <<>>],
      [StackID |-> "stack.id.1", CommonMixins |-> <<"A", "B">>, RunOnlyMixins |-> <<>>],
      [StackID |-> "stack.id.1", CommonMixins |-> <<>>, RunOnlyMixins |-> <<"A">>],
      [StackID |-> "stack.id.2", CommonMixins |-> <<"A">>, RunOnlyMixins |-> <<>>] }

\* a requested buildpack: its text split at "@", whether it is a URI, whether it
\* exists as a local path, and what fetching it yields
Token(parts, isURI, exists, supported, downloads_, parses, bp) ==
    [parts |-> parts, isURI |-> isURI, exists |-> exists, supported |-> supported,
     downloadOK |-> downloads_, parseOK |-> parses, bp |-> bp]

IDToken(parts) == Token(parts, FALSE, FALSE, TRUE, FALSE, FALSE, NilBuildpack)

Tokens ==
    { IDToken(<<"bp.1.id", "bp.1.version">>),
      IDToken(<<"bp.1.id", "latest">>),
      IDToken(<<"bp.3.id">>),
      Token(<<"https://example.com/bp.tgz">>, TRUE, FALSE, TRUE, TRUE, TRUE,
            Descriptor(Info("bp.6.id", "bp.6.version"), <<Stack("stack.id.1", {"A"})>>, <<>>)),
      Token(<<"./local-bp">>, FALSE, TRUE, TRUE, TRUE, TRUE,
            Descriptor(Info("bp.7.id", "bp.7.version"), <<Stack("stack.id.2", {})>>, <<>>)),
      Token(<<"./meta-bp">>, FALSE, TRUE, TRUE, TRUE, TRUE,
            Descriptor(Info("meta.2.id", "meta.2.version"), <<>>, SomeOrder)),
      Token(<<"./dir-bp">>, FALSE, TRUE, FALSE, TRUE, TRUE, NilBuildpack),
      Token(<<"https://example.com/gone.tgz">>, TRUE, FALSE, TRUE, FALSE, TRUE, NilBuildpack),
      Token(<<"./broken.tgz">>, FALSE, TRUE, TRUE, TRUE, FALSE, NilBuildpack) }

\* the random suffixes randString may yield
ScratchSuffixes == {"aaaaaaaaaa", "bbbbbbbbbb"}

\* fmt.Sprintf("pack.local/builder/%x:latest", randString(10))
ScratchName(suffix) ==
    IF suffix = "aaaaaaaaaa"
    THEN "pack.local/builder/61616161616161616161:latest"
    ELSE "pack.local/builder/62626262626262626262:latest"

\* isBuildpackID without the os.Stat of the token
isBuildpackID_PathNotLookedAt(tok) == IF ~tok.isURI THEN TRUE ELSE FALSE

\* func isBuildpackID(bp string) bool
isBuildpackID(tok) ==
    IF ~tok.isURI THEN (IF ~tok.exists THEN TRUE ELSE FALSE) ELSE FALSE

\* func (c *Client) parseBuildpack(bp string) (string, string)
parseBuildpack(tok) ==
    IF Len(tok.parts) = 2
    THEN IF tok.parts[2] = "latest"
         THEN Info(tok.parts[1], "")
         ELSE Info(tok.parts[1], tok.parts[2])
    ELSE Info(tok.parts[1], "")

RECURSIVE processBuildpacksFrom(_, _, _, _, _)
\* func (c *Client) processBuildpacks: the loop from token i on, with the
\* buildpacks, the group and the downloads so far
processBuildpacksFrom(toks, i, bps, grp, dl) ==
    IF i > Len(toks) THEN [bps |-> bps, group |-> grp, err |-> NoError, downloads |-> dl]
    ELSE LET bp == toks[i]
         IN  IF isBuildpackID(bp)
             THEN processBuildpacksFrom(toks, i + 1, bps, Append(grp, parseBuildpack(bp)), dl)
             ELSE IF ~bp.supported
             THEN [bps |-> <<>>, group |-> <<>>, downloads |-> dl,
                   err |-> [kind |-> "checking buildpack path", token |-> bp.parts]]
             ELSE IF ~bp.downloadOK
             THEN [bps |-> <<>>, group |-> <<>>, downloads |-> Append(dl, bp.parts),
                   err |-> [kind |-> "downloading buildpack", token |-> bp.parts]]
             ELSE IF ~bp.parseOK
             THEN [bps |-> <<>>, group |-> <<>>, downloads |-> Append(dl, bp.parts),
                   err |-> [kind |-> "creating buildpack", token |-> bp.parts]]
             ELSE processBuildpacksFrom(toks, i + 1, Append(bps, bp.bp),
                                        Append(grp, bp.bp.Info), Append(dl, bp.parts))

\* func (c *Client) processBuildpacks(ctx, buildpacks)
processBuildpacks(toks) == processBuildpacksFrom(toks, 1, <<>>, <<>>, <<>>)

\* Client.resolveRunImage: the explicit run image, else the one the builder's
\* stack metadata names
resolveRunImage(explicit, bldr) == IF explicit # "" THEN explicit ELSE bldr.RunImage

\* dist.BuildpackDescriptor.EnsureStackSupport
EnsureStackSupport(bp, stackID, availableMixins, requireMixins) ==
    IF Len(bp.Order) > 0 THEN NoError
    ELSE IF stackID \notin StackIDsOf(bp.Stacks)
    THEN [kind |-> "StackMismatch", buildpack |-> bp.Info, stack |-> stackID]
    ELSE LET missing == MixinsFor(bp.Stacks, stackID) \ FromSlice(availableMixins)
         IN  IF requireMixins /\ missing # {}
             THEN [kind |-> "MissingMixins", buildpack |-> bp.Info,
                   missing |-> SortSet(missing)]
             ELSE NoError

\* allBuildpacks with the Order of the builder's buildpacks not copied
allBuildpacks_OrderDropped(embeddedOrder, additionalBuildpacks) ==
    [i \in DOMAIN embeddedOrder |-> [embeddedOrder[i] EXCEPT !.Order = <<>>]]
        \o additionalBuildpacks

\* func allBuildpacks(builderImg, additionalBuildpacks): the descriptors of the
\* builder's index in one of the orders a range over the map may take, then
\* the additional buildpacks
allBuildpacks(embeddedOrder, additionalBuildpacks) ==
    embeddedOrder \o additionalBuildpacks

\* the orders in which a range over a set of map entries may visit them
Orderings(S) ==
    {f \in [1..Cardinality(S) -> S] : \A i, j \in 1..Cardinality(S) : f[i] = f[j] => i = j}

RECURSIVE FirstError(_, _, _, _)
\* build.go:199-203: the first error of EnsureStackSupport over bps, from i on
FirstError(bps, stackID, mixins, i) ==
    IF i > Len(bps) THEN NoError
    ELSE LET err == EnsureStackSupport(bps[i], stackID, mixins, TRUE)
         IN  IF err # NoError THEN err ELSE FirstError(bps, stackID, mixins, i + 1)

\* func (c *Client) validateMixins, for one order of the range over the index
validateMixins(additionalBuildpacks, builderImg, runImg, embeddedOrder) ==
    IF validateCommonMixins(builderImg, runImg) # NoError
    THEN validateCommonMixins(builderImg, runImg)
    ELSE LET bps    == allBuildpacks(embeddedOrder, additionalBuildpacks)
             mixins == assembleAvailableMixins(builderImg, runImg)
         IN  FirstError(bps, builderImg.StackID, mixins, 1)

----------------------------------------------------------------------------
(* SpecBuild: Client.Build *)

MapRemove(m, k) == [x \in DOMAIN m \ {k} |-> m[x]]

\* what the daemon holds for a builder image
Stored(order, bps, env) == [Order |-> order, Buildpacks |-> bps, Env |-> env]

\* the base builder as the daemon holds it under opts.Builder
BaseStored(img) ==
    Stored(img.Order, {bp.Info : bp \in img.BuildpackLayers}, FALSE)

TokenSeqs == SeqsUpTo(Tokens, MaxTokens)

BuildInputsUnchanged == UNCHANGED <<opts, builderImage, runImage>>

\* a return statement of Build: the deferred calls, if any, run before it returns
Return(err) ==
    /\ buildResult' = [returned |-> (deferred = <<>>), err |-> err]
    /\ bpc' = IF deferred = <<>> THEN "returned" ELSE "runDeferred"

\* Build goes on to its next statement
Goto(step) ==
    /\ bpc' = step
    /\ UNCHANGED buildResult

Enter(step) == steps' = Append(steps, step)

\* build.go:74-77: c.parseTagReference(opts.Image)
BuildParseTagReference ==
    /\ bpc = "parseTagReference"
    /\ Enter("parseTagReference")
    /\ \E ok \in BOOLEAN :
          IF ok THEN Goto("processAppPath")
          ELSE Return([kind |-> "invalid image name"])
    /\ BuildInputsUnchanged
    /\ UNCHANGED <<rawBuilderImage, runImageName, fetchedBPs, group,
                   ephemeralBuilderImage, daemon, deferred, removeAttempts,
                   lifecycleCalls, fetches, downloads>>

\* build.go:79-84: c.processAppPath(opts.AppPath), c.processProxyConfig
BuildProcessAppPath ==
    /\ bpc = "processAppPath"
    /\ Enter("processAppPath")
    /\ \E ok \in BOOLEAN :
          IF ok THEN Goto("processBuilderName")
          ELSE Return([kind |-> "invalid app path"])
    /\ BuildInputsUnchanged
    /\ UNCHANGED <<rawBuilderImage, runImageName, fetchedBPs, group,
                   ephemeralBuilderImage, daemon, deferred, removeAttempts,
                   lifecycleCalls, fetches, downloads>>

\* build.go:86-89, 160-165: c.processBuilderName(opts.Builder)
BuildProcessBuilderName ==
    /\ bpc = "processBuilderName"
    /\ Enter("processBuilderName")
    /\ \E parses \in BOOLEAN :
          IF opts.Builder = "" \/ ~parses
          THEN Return([kind |-> "invalid builder"])
          ELSE Goto("fetchBuilder")
    /\ BuildInputsUnchanged
    /\ UNCHANGED <<rawBuilderImage, runImageName, fetchedBPs, group,
                   ephemeralBuilderImage, daemon, deferred, removeAttempts,
                   lifecycleCalls, fetches, downloads>>

\* build.go:91-94: c.imageFetcher.Fetch(ctx, builderRef.Name(), true, !opts.NoPull)
BuildFetchBuilder ==
    /\ bpc = "fetchBuilder"
    /\ Enter("fetchBuilder")
    /\ fetches' = Append(fetches, opts.Builder)
    /\ \E ok \in BOOLEAN :
          IF ok
          THEN /\ rawBuilderImage' = [Name |-> opts.Builder]
               /\ Goto("newBuilderImage")
          ELSE /\ Return([kind |-> "failed to fetch builder image"])
               /\ UNCHANGED rawBuilderImage
    /\ BuildInputsUnchanged
    /\ UNCHANGED <<runImageName, fetchedBPs, group, ephemeralBuilderImage, daemon,
                   deferred, removeAttempts, lifecycleCalls, downloads>>

\* build.go:96-109: stack.NewImage, stack.NewBuildImage, builder.NewImage
BuildNewBuilderImage ==
    /\ bpc = "newBuilderImage"
    /\ Enter("newBuilderImage")
    /\ \E ok \in BOOLEAN :
          IF ok THEN Goto("resolveRunImage")
          ELSE Return([kind |-> "invalid builder metadata"])
    /\ BuildInputsUnchanged
    /\ UNCHANGED <<rawBuilderImage, runImageName, fetchedBPs, group,
                   ephemeralBuilderImage, daemon, deferred, removeAttempts,
                   lifecycleCalls, fetches, downloads>>

\* build.go:111-114: c.resolveRunImage(...)
BuildResolveRunImage ==
    /\ bpc = "resolveRunImage"
    /\ Enter("resolveRunImage")
    /\ runImageName' = resolveRunImage(opts.RunImage, builderImage)
    /\ IF runImageName' = ""
       THEN Return([kind |-> "run image must be specified"])
       ELSE Goto("validateRunImage")
    /\ BuildInputsUnchanged
    /\ UNCHANGED <<rawBuilderImage, fetchedBPs, group, ephemeralBuilderImage, daemon,
                   deferred, removeAttempts, lifecycleCalls, fetches, downloads>>

\* validateRunImage without the comparison of the two stack IDs
validateRunImage_StackNotCompared(run, expectedStack, outcome) ==
    IF outcome = "fetchFails" THEN [kind |-> "fetch run image"]
    ELSE IF outcome = "noStackMetadata" THEN [kind |-> "invalid stack image"]
    ELSE IF outcome = "noRunImageMetadata" THEN [kind |-> "invalid run image"]
    ELSE NoError

\* func (c *Client) validateRunImage: the error it returns when the fetch and
\* the image's metadata are as `outcome` says
validateRunImage(run, expectedStack, outcome) ==
    IF outcome = "fetchFails" THEN [kind |-> "fetch run image"]
    ELSE IF outcome = "noStackMetadata" THEN [kind |-> "invalid stack image"]
    ELSE IF run.StackID # expectedStack
    THEN [kind |-> "run-image stack mismatch", run |-> run.StackID,
          builder |-> expectedStack]
    ELSE IF outcome = "noRunImageMetadata" THEN [kind |-> "invalid run image"]
    ELSE NoError

\* build.go:116-119: c.validateRunImage(ctx, runImageName, ...)
BuildValidateRunImage ==
    /\ bpc = "validateRunImage"
    /\ Enter("validateRunImage")
    /\ fetches' = Append(fetches, runImageName)
    /\ \E outcome \in {"fetchFails", "noStackMetadata", "noRunImageMetadata", "fetched"} :
          LET err == validateRunImage(runImage, builderImage.StackID, outcome)
          IN  IF err = NoError THEN Goto("processBuildpacks")
              ELSE Return([kind |-> "invalid run-image", cause |-> err])
    /\ BuildInputsUnchanged
    /\ UNCHANGED <<rawBuilderImage, runImageName, fetchedBPs, group,
                   ephemeralBuilderImage, daemon, deferred, removeAttempts,
                   lifecycleCalls, downloads>>

\* BuildProcessBuildpacks with the error of processBuildpacks not looked at
BuildProcessBuildpacks_ErrorIgnored ==
    /\ bpc = "processBuildpacks"
    /\ Enter("processBuildpacks")
    /\ LET r == processBuildpacks(opts.Buildpacks)
       IN  /\ fetchedBPs' = r.bps
           /\ group' = r.group
           /\ downloads' = downloads \o r.downloads
           /\ Goto("validateMixins")
    /\ BuildInputsUnchanged
    /\ UNCHANGED <<rawBuilderImage, runImageName, ephemeralBuilderImage, daemon,
                   deferred, removeAttempts, lifecycleCalls, fetches>>

\* build.go:121-124: c.processBuildpacks(ctx, opts.Buildpacks)
BuildProcessBuildpacks ==
    /\ bpc = "processBuildpacks"
    /\ Enter("processBuildpacks")
    /\ LET r == processBuildpacks(opts.Buildpacks)
       IN  /\ fetchedBPs' = r.bps
           /\ group' = r.group
           /\ downloads' = downloads \o r.downloads
           /\ IF r.err = NoError THEN Goto("validateMixins") ELSE Return(r.err)
    /\ BuildInputsUnchanged
    /\ UNCHANGED <<rawBuilderImage, runImageName, ephemeralBuilderImage, daemon,
                   deferred, removeAttempts, lifecycleCalls, fetches>>

\* the runImage view of the validated run image
RunView == [Name |-> runImageName, CommonMixins |-> runImage.CommonMixins,
            RunOnlyMixins |-> runImage.RunOnlyMixins]

\* build.go:126-128: c.validateMixins(fetchedBPs, builderImage, runImage)
BuildValidateMixins ==
    /\ bpc = "validateMixins"
    /\ Enter("validateMixins")
    /\ \E embeddedOrder \in Orderings(builderImage.BuildpackLayers) :
          LET err == validateMixins(fetchedBPs, builderImage, RunView, embeddedOrder)
          IN  IF err = NoError THEN Goto("createEphemeralBuilder")
              ELSE Return([kind |-> "validating stack mixins", cause |-> err])
    /\ BuildInputsUnchanged
    /\ UNCHANGED <<rawBuilderImage, runImageName, fetchedBPs, group,
                   ephemeralBuilderImage, daemon, deferred, removeAttempts,
                   lifecycleCalls, fetches, downloads>>

\* Rename that leaves the handle under its name
Rename_Kept(img, name) == img

\* imgutil.Image.Rename: the handle is given another name; the daemon is not touched
Rename(img, name) == [img EXCEPT !.Name = name]

\* Compose with SetOrder called whether the group is empty or not
Compose_OrderAlwaysSet(base, grp, buildpacks) ==
    Stored(<<grp>>,
           base.Buildpacks \cup {buildpacks[i].Info : i \in DOMAIN buildpacks},
           TRUE)

\* build.go:450-460: SetEnv, AddBuildpack for each buildpack, SetOrder when the
\* group is not empty
Compose(base, grp, buildpacks) ==
    Stored(IF Len(grp) > 0 THEN <<grp>> ELSE base.Order,
           base.Buildpacks \cup {buildpacks[i].Info : i \in DOMAIN buildpacks},
           TRUE)

\* the removal is not deferred
DeferImageRemove_Dropped(d, name) == d

\* build.go:134: defer c.docker.ImageRemove(..., ephemeralBuilderImage.Name(), ...)
DeferImageRemove(d, name) == Append(d, name)

\* builder.Builder.Save: the composed image is persisted in the daemon under
\* the name its handle has then; a Save that fails persists nothing
builderSave(d, img, content, saved) ==
    IF saved THEN MapSet(d, img.Name, content) ELSE d

\* BuildCreateEphemeralBuilder with the removal of the scratch name deferred
\* before the outcome of the composition is looked at
BuildCreateEphemeralBuilder_RemovalDeferredFirst ==
    /\ bpc = "createEphemeralBuilder"
    /\ Enter("createEphemeralBuilder")
    /\ \E suffix \in ScratchSuffixes, outcome \in {"fromImageFails", "saveFails", "saved"} :
          LET origBuilderName == rawBuilderImage.Name
              renamed == Rename(rawBuilderImage, ScratchName(suffix))
          IN  /\ rawBuilderImage' = renamed
              /\ daemon' = IF outcome = "fromImageFails" THEN daemon
                            ELSE builderSave(daemon, renamed,
                                     Compose(BaseStored(builderImage), group, fetchedBPs),
                                     outcome = "saved")
              /\ deferred' = DeferImageRemove(deferred, renamed.Name)
              /\ IF outcome = "saved"
                 THEN /\ ephemeralBuilderImage' = renamed
                      /\ Goto("platformAPI")
                 ELSE /\ buildResult' = [returned |-> FALSE,
                                         err |-> [kind |-> "invalid builder",
                                                  builder |-> origBuilderName]]
                      /\ bpc' = "runDeferred"
                      /\ UNCHANGED ephemeralBuilderImage
    /\ BuildInputsUnchanged
    /\ UNCHANGED <<runImageName, fetchedBPs, group, removeAttempts, lifecycleCalls,
                   fetches, downloads>>

\* build.go:130-134: c.createEphemeralBuilder(rawBuilderImage, opts.Env, group,
\* fetchedBPs), and the deferred removal of the image it returns
BuildCreateEphemeralBuilder ==
    /\ bpc = "createEphemeralBuilder"
    /\ Enter("createEphemeralBuilder")
    /\ \E suffix \in ScratchSuffixes, outcome \in {"fromImageFails", "saveFails", "saved"} :
          LET origBuilderName == rawBuilderImage.Name
              renamed == Rename(rawBuilderImage, ScratchName(suffix))
          IN  /\ rawBuilderImage' = renamed
              /\ daemon' = IF outcome = "fromImageFails" THEN daemon
                            ELSE builderSave(daemon, renamed,
                                     Compose(BaseStored(builderImage), group, fetchedBPs),
                                     outcome = "saved")
              /\ IF outcome = "saved"
                 THEN /\ ephemeralBuilderImage' = renamed
                      /\ deferred' = DeferImageRemove(deferred, renamed.Name)
                      /\ Goto("platformAPI")
                 ELSE /\ Return([kind |-> "invalid builder", builder |-> origBuilderName])
                      /\ UNCHANGED <<ephemeralBuilderImage, deferred>>
    /\ BuildInputsUnchanged
    /\ UNCHANGED <<runImageName, fetchedBPs, group, removeAttempts, lifecycleCalls,
                   fetches, downloads>>

\* build.go:136-144: the Platform API versions of pack and of the builder
BuildPlatformAPI ==
    /\ bpc = "platformAPI"
    /\ Enter("platformAPI")
    /\ \E supported \in BOOLEAN :
          IF supported THEN Goto("lifecycle")
          ELSE Return([kind |-> "incompatible platform API"])
    /\ BuildInputsUnchanged
    /\ UNCHANGED <<rawBuilderImage, runImageName, fetchedBPs, group,
                   ephemeralBuilderImage, daemon, deferred, removeAttempts,
                   lifecycleCalls, fetches, downloads>>

\* build.go:146-157: return c.lifecycle.Execute(ctx, build.LifecycleOptions{...})
BuildLifecycleExecute ==
    /\ bpc = "lifecycle"
    /\ Enter("lifecycle")
    /\ lifecycleCalls' = lifecycleCalls + 1
    /\ \E ok \in BOOLEAN :
          Return(IF ok THEN NoError ELSE [kind |-> "lifecycle failed"])
    /\ BuildInputsUnchanged
    /\ UNCHANGED <<rawBuilderImage, runImageName, fetchedBPs, group,
                   ephemeralBuilderImage, daemon, deferred, removeAttempts,
                   fetches, downloads>>

\* build.go:134 at return: docker.ImageRemove(name, Force) runs, its result is dropped
BuildRunDeferred ==
    /\ bpc = "runDeferred"
    /\ \E removed \in BOOLEAN :
          /\ removeAttempts' = Append(removeAttempts, <<Head(deferred), removed>>)
          /\ daemon' = IF removed THEN MapRemove(daemon, Head(deferred)) ELSE daemon
    /\ deferred' = Tail(deferred)
    /\ bpc' = "returned"
    /\ buildResult' = [buildResult EXCEPT !.returned = TRUE]
    /\ BuildInputsUnchanged
    /\ UNCHANGED <<rawBuilderImage, runImageName, fetchedBPs, group,
                   ephemeralBuilderImage, lifecycleCalls, fetches, downloads, steps>>

----------------------------------------------------------------------------
(* The specifications *)

MixinsNext ==
    \/ CallFindMissing /\ UNCHANGED <<pkgVars, buildVars>>
    \/ CallValidateCommonMixins /\ UNCHANGED <<pkgVars, buildVars>>
    \/ CallAssembleAvailableMixins /\ UNCHANGED <<pkgVars, buildVars>>

\* the mixin functions get every pair of images; no PackageBuilder call, no Build
InitMixins ==
    /\ mBuilder \in [CommonMixins : MixinLists, BuildOnlyMixins : MixinLists]
    /\ mRun \in [Name : {"run"}, CommonMixins : MixinLists, RunOnlyMixins : MixinLists]
    /\ mCall = "none"
    /\ mOut = Nil
    /\ mA = <<>>
    /\ mB = <<>>
    /\ buildpack = NilBuildpack
    /\ dependencies = <<>>
    /\ spc = "idle"
    /\ stacks = <<>>
    /\ bpIdx = 0
    /\ bpLayers = EmptyMap
    /\ newImageCalls = 0
    /\ image = NilImage
    /\ imgLabels = EmptyMap
    /\ imgLayers = <<>>
    /\ imgSaveCalls = 0
    /\ imgSaved = 0
    /\ saveResult = NoResult
    /\ opts = [Image |-> "some/app", Builder |-> "", RunImage |-> "", Buildpacks |-> <<>>]
    /\ builderImage = CHOOSE b \in BuilderImages : TRUE
    /\ runImage = CHOOSE r \in RunImageContents : TRUE
    /\ bpc = "idle"
    /\ rawBuilderImage = NilImage
    /\ runImageName = ""
    /\ fetchedBPs = <<>>
    /\ group = <<>>
    /\ ephemeralBuilderImage = NilImage
    /\ daemon = EmptyMap
    /\ deferred = <<>>
    /\ removeAttempts = <<>>
    /\ lifecycleCalls = 0
    /\ fetches = <<>>
    /\ downloads = <<>>
    /\ steps = <<>>
    /\ buildResult = [returned |-> FALSE, err |-> NoError]

SpecMixins == InitMixins /\ [][MixinsNext]_vars

StacksNext ==
    \/ CallMergeCompatible /\ UNCHANGED <<pkgVars, buildVars>>

\* MergeCompatible gets every pair of stack lists; nothing else is called
InitStacks ==
    /\ mBuilder = [CommonMixins |-> <<>>, BuildOnlyMixins |-> <<>>]
    /\ mRun = [Name |-> "run", CommonMixins |-> <<>>, RunOnlyMixins |-> <<>>]
    /\ mCall = "none"
    /\ mOut = Nil
    /\ mA \in StackLists
    /\ mB \in StackLists
    /\ buildpack = NilBuildpack
    /\ dependencies = <<>>
    /\ spc = "idle"
    /\ stacks = <<>>
    /\ bpIdx = 0
    /\ bpLayers = EmptyMap
    /\ newImageCalls = 0
    /\ image = NilImage
    /\ imgLabels = EmptyMap
    /\ imgLayers = <<>>
    /\ imgSaveCalls = 0
    /\ imgSaved = 0
    /\ saveResult = NoResult
    /\ opts = [Image |-> "some/app", Builder |-> "", RunImage |-> "", Buildpacks |-> <<>>]
    /\ builderImage = CHOOSE b \in BuilderImages : TRUE
    /\ runImage = CHOOSE r \in RunImageContents : TRUE
    /\ bpc = "idle"
    /\ rawBuilderImage = NilImage
    /\ runImageName = ""
    /\ fetchedBPs = <<>>
    /\ group = <<>>
    /\ ephemeralBuilderImage = NilImage
    /\ daemon = EmptyMap
    /\ deferred = <<>>
    /\ removeAttempts = <<>>
    /\ lifecycleCalls = 0
    /\ fetches = <<>>
    /\ downloads = <<>>
    /\ steps = <<>>
    /\ buildResult = [returned |-> FALSE, err |-> NoError]

SpecStacks == InitStacks /\ [][StacksNext]_vars

PackageNext ==
    \/ SetBuildpack /\ UNCHANGED <<pureVars, buildVars>>
    \/ AddDependency /\ UNCHANGED <<pureVars, buildVars>>
    \/ SaveValidate /\ UNCHANGED <<pureVars, buildVars>>
    \/ SaveNewImage /\ UNCHANGED <<pureVars, buildVars>>
    \/ SaveSetMetadataLabel /\ UNCHANGED <<pureVars, buildVars>>
    \/ SaveTempDir /\ UNCHANGED <<pureVars, buildVars>>
    \/ SaveLayerTar /\ UNCHANGED <<pureVars, buildVars>>
    \/ SaveAddLayer /\ UNCHANGED <<pureVars, buildVars>>
    \/ SaveDiffID /\ UNCHANGED <<pureVars, buildVars>>
    \/ SaveSetLayersLabel /\ UNCHANGED <<pureVars, buildVars>>
    \/ SaveImageSave /\ UNCHANGED <<pureVars, buildVars>>

\* NewBuilder (builder.go:25-29): no buildpack, no dependencies, Save not called
InitPackage ==
    /\ mBuilder = [CommonMixins |-> <<>>, BuildOnlyMixins |-> <<>>]
    /\ mRun = [Name |-> "run", CommonMixins |-> <<>>, RunOnlyMixins |-> <<>>]
    /\ mCall = "none"
    /\ mOut = Nil
    /\ mA = <<>>
    /\ mB = <<>>
    /\ buildpack = NilBuildpack
    /\ dependencies = <<>>
    /\ spc = "idle"
    /\ stacks = <<>>
    /\ bpIdx = 0
    /\ bpLayers = EmptyMap
    /\ newImageCalls = 0
    /\ image = NilImage
    /\ imgLabels = EmptyMap
    /\ imgLayers = <<>>
    /\ imgSaveCalls = 0
    /\ imgSaved = 0
    /\ saveResult = NoResult
    /\ opts = [Image |-> "some/app", Builder |-> "", RunImage |-> "", Buildpacks |-> <<>>]
    /\ builderImage = CHOOSE b \in BuilderImages : TRUE
    /\ runImage = CHOOSE r \in RunImageContents : TRUE
    /\ bpc = "idle"
    /\ rawBuilderImage = NilImage
    /\ runImageName = ""
    /\ fetchedBPs = <<>>
    /\ group = <<>>
    /\ ephemeralBuilderImage = NilImage
    /\ daemon = EmptyMap
    /\ deferred = <<>>
    /\ removeAttempts = <<>>
    /\ lifecycleCalls = 0
    /\ fetches = <<>>
    /\ downloads = <<>>
    /\ steps = <<>>
    /\ buildResult = [returned |-> FALSE, err |-> NoError]

SpecPackage == InitPackage /\ [][PackageNext]_vars

BuildSpecNext ==
    \/ BuildParseTagReference /\ UNCHANGED <<pureVars, pkgVars>>
    \/ BuildProcessAppPath /\ UNCHANGED <<pureVars, pkgVars>>
    \/ BuildProcessBuilderName /\ UNCHANGED <<pureVars, pkgVars>>
    \/ BuildFetchBuilder /\ UNCHANGED <<pureVars, pkgVars>>
    \/ BuildNewBuilderImage /\ UNCHANGED <<pureVars, pkgVars>>
    \/ BuildResolveRunImage /\ UNCHANGED <<pureVars, pkgVars>>
    \/ BuildValidateRunImage /\ UNCHANGED <<pureVars, pkgVars>>
    \/ BuildProcessBuildpacks /\ UNCHANGED <<pureVars, pkgVars>>
    \/ BuildValidateMixins /\ UNCHANGED <<pureVars, pkgVars>>
    \/ BuildCreateEphemeralBuilder /\ UNCHANGED <<pureVars, pkgVars>>
    \/ BuildPlatformAPI /\ UNCHANGED <<pureVars, pkgVars>>
    \/ BuildLifecycleExecute /\ UNCHANGED <<pureVars, pkgVars>>
    \/ BuildRunDeferred /\ UNCHANGED <<pureVars, pkgVars>>

\* Build is called with some options, against some builder and run image
InitBuild ==
    /\ mBuilder = [CommonMixins |-> <<>>, BuildOnlyMixins |-> <<>>]
    /\ mRun = [Name |-> "run", CommonMixins |-> <<>>, RunOnlyMixins |-> <<>>]
    /\ mCall = "none"
    /\ mOut = Nil
    /\ mA = <<>>
    /\ mB = <<>>
    /\ buildpack = NilBuildpack
    /\ dependencies = <<>>
    /\ spc = "idle"
    /\ stacks = <<>>
    /\ bpIdx = 0
    /\ bpLayers = EmptyMap
    /\ newImageCalls = 0
    /\ image = NilImage
    /\ imgLabels = EmptyMap
    /\ imgLayers = <<>>
    /\ imgSaveCalls = 0
    /\ imgSaved = 0
    /\ saveResult = NoResult
    /\ opts \in [Image : {"some/app"}, Builder : {"", "cnb/builder"},
                 RunImage : {"", "run/custom"}, Buildpacks : TokenSeqs]
    /\ builderImage \in BuilderImages
    /\ runImage \in RunImageContents
    /\ bpc = "parseTagReference"
    /\ rawBuilderImage = NilImage
    /\ runImageName = ""
    /\ fetchedBPs = <<>>
    /\ group = <<>>
    /\ ephemeralBuilderImage = NilImage
    /\ daemon = [n \in {"cnb/builder"} |-> BaseStored(builderImage)]
    /\ deferred = <<>>
    /\ removeAttempts = <<>>
    /\ lifecycleCalls = 0
    /\ fetches = <<>>
    /\ downloads = <<>>
    /\ steps = <<>>
    /\ buildResult = [returned |-> FALSE, err |-> NoError]

SpecBuild == InitBuild /\ [][BuildSpecNext]_vars

\* the default specification: a PackageBuilder
Next == PackageNext

Init == InitPackage

Spec == SpecPackage

----------------------------------------------------------------------------
(* Properties *)

ScratchNames == {ScratchName(x) : x \in ScratchSuffixes}

\* C1: assembleAvailableMixins returns, as a set, the mixins common to both
\* images' CommonMixins, plus the builder's BuildOnlyMixins, plus the run
\* image's RunOnlyMixins; a mixin common on one image only is left out unless
\* it is build-only on the builder or run-only on the run image.
C1_AssembleIntersectsThenUnions ==
    mCall = "assembleAvailableMixins" =>
        Range(mOut) = (Range(mBuilder.CommonMixins) \cap Range(mRun.CommonMixins))
                          \cup Range(mBuilder.BuildOnlyMixins)
                          \cup Range(mRun.RunOnlyMixins)

\* builder common {A}, run common {A, B}, nothing build-only or run-only: B is left out
C1_Witness ==
    /\ mCall = "assembleAvailableMixins"
    /\ mBuilder.CommonMixins = <<"A">>
    /\ mRun.CommonMixins = <<"A", "B">>
    /\ mBuilder.BuildOnlyMixins = <<>>
    /\ mRun.RunOnlyMixins = <<>>
    /\ mOut = <<"A">>

\* Save has returned one of the errors of its checks (builder.go:40-65)
FailedValidation ==
    /\ spc = "returned"
    /\ saveResult.err.kind \in ValidationErrorKinds

\* nothing was done to an image: none created, no label, no layer, no save
NoImageIO ==
    /\ newImageCalls = 0
    /\ image = NilImage
    /\ DOMAIN imgLabels = {}
    /\ Len(imgLayers) = 0
    /\ imgSaveCalls = 0

\* C2: in Save every check is made before the first step that touches an
\* image: when Save fails a check, NewImage was not called, no label was set,
\* no layer was added and image.Save was not called; and once NewImage has been
\* called, the checks have all passed.
C2_ValidationBeforeIO ==
    /\ FailedValidation => NoImageIO
    /\ newImageCalls > 0 => ValidateSave(buildpack, dependencies).err = NoError

\* Save failed its last check, on the second dependency, and touched no image
C2_Witness ==
    /\ FailedValidation
    /\ saveResult.err.kind = "NoCommonStack"
    /\ Len(dependencies) = 2
    /\ saveResult.err.from = dependencies[2].Info
    /\ NoImageIO

\* a removal of image n was attempted
RemovalAttempted(n) == \E i \in DOMAIN removeAttempts : removeAttempts[i][1] = n

\* C3: when Build has returned, whatever the path, the ephemeral builder image
\* it persisted (if any) has had its removal attempted, and no scratch image is
\* in the daemon without such an attempt; the deferred removal, failing or
\* not, leaves the error Build returns as the return statement set it.
C3_ScratchRemovalAttempted ==
    /\ [](buildResult.returned =>
            /\ ephemeralBuilderImage # NilImage =>
                   RemovalAttempted(ephemeralBuilderImage.Name)
            /\ \A n \in DOMAIN daemon \cap ScratchNames : RemovalAttempted(n))
    /\ [][bpc = "runDeferred" => buildResult'.err = buildResult.err]_vars

\* Build returned the lifecycle's failure after a removal that itself failed
C3_Witness ==
    /\ buildResult.returned
    /\ buildResult.err = [kind |-> "lifecycle failed"]
    /\ ephemeralBuilderImage # NilImage
    /\ removeAttempts = << <<ephemeralBuilderImage.Name, FALSE>> >>
    /\ ephemeralBuilderImage.Name \in DOMAIN daemon

\* C4: composing the ephemeral builder leaves the base builder image in the
\* daemon under its own name, unchanged, whether the composition succeeds or
\* fails; the composed image is held under a generated pack.local/builder/...
\* name only, which is not the base's name.
C4_BaseImageKeptUnderItsName ==
    /\ "cnb/builder" \in DOMAIN daemon
    /\ daemon["cnb/builder"] = BaseStored(builderImage)
    /\ DOMAIN daemon \subseteq {"cnb/builder"} \cup ScratchNames
    /\ ephemeralBuilderImage # NilImage =>
          /\ ephemeralBuilderImage.Name \in ScratchNames
          /\ ephemeralBuilderImage.Name # opts.Builder

\* the composition succeeded: the composed image is in the daemon under the
\* generated name, next to the base under its own
C4_Witness ==
    /\ bpc = "platformAPI"
    /\ ephemeralBuilderImage.Name \in DOMAIN daemon
    /\ daemon[ephemeralBuilderImage.Name] # daemon[opts.Builder]
    /\ daemon[opts.Builder] = BaseStored(builderImage)
    /\ Len(fetchedBPs) > 0

\* the layers of the buildpacks, dependencies first and the buildpack last
ExpectedLayers == [i \in 1..Len(AllBuildpacks) |-> BuildpackToLayerTar(AllBuildpacks[i])]

\* C5: Save calls image.Save at most once, and only after the metadata label,
\* the layer of every buildpack and the BuildpackLayers label were written; it
\* returns the image with no error exactly when that one image.Save succeeded;
\* when any step fails it returns an error and no image, and no image.Save
\* has succeeded.
C5_SavedOnceAfterEverythingWritten ==
    /\ imgSaveCalls <= 1
    /\ imgSaved <= imgSaveCalls
    /\ imgSaveCalls > 0 =>
          /\ MetadataLabel \in DOMAIN imgLabels
          /\ BuildpackLayersLabel \in DOMAIN imgLabels
          /\ imgLayers = ExpectedLayers
    /\ (spc = "returned" /\ saveResult.err = NoError) =>
          /\ imgSaved = 1
          /\ saveResult.image = image
          /\ image # NilImage
    /\ (spc = "returned" /\ saveResult.err # NoError) =>
          /\ imgSaved = 0
          /\ saveResult.image = NilImage
    /\ (spc # "returned") => imgSaved = 0

\* Save returned the image of a buildpack with two dependencies, saved once
C5_Witness ==
    /\ spc = "returned"
    /\ saveResult.err = NoError
    /\ imgSaved = 1
    /\ Len(imgLayers) = 3

\* Build went past the validation of the mixins
PastValidateMixins == "createEphemeralBuilder" \in Range(steps) \/ bpc = "createEphemeralBuilder"

\* C6 as the spec states it: Build goes past the validation of the mixins only
\* if the run image's CommonMixins are a subset of the builder's CommonMixins.
C6_RunCommonWithinBuilderCommon ==
    PastValidateMixins =>
        Range(runImage.CommonMixins) \subseteq Range(builderImage.CommonMixins)

\* C6 (amended): Build goes past the validation of the mixins only if the
\* builder's CommonMixins are a subset of the run image's CommonMixins; when
\* they are not, Build returns the missing-mixins error of validateCommonMixins
\* that lists them sorted, no ephemeral builder is composed and the lifecycle
\* is not executed.
C6_BuilderCommonWithinRunCommon ==
    /\ PastValidateMixins =>
          Range(builderImage.CommonMixins) \subseteq Range(runImage.CommonMixins)
    /\ ("validateMixins" \in Range(steps)
          /\ ~(Range(builderImage.CommonMixins) \subseteq Range(runImage.CommonMixins))) =>
          /\ buildResult.returned
          /\ buildResult.err.kind = "validating stack mixins"
          /\ buildResult.err.cause.kind = "MissingRequiredMixins"
          /\ buildResult.err.cause.missing =
                SortSet(Range(builderImage.CommonMixins) \ Range(runImage.CommonMixins))
          /\ ~PastValidateMixins
          /\ ephemeralBuilderImage = NilImage
          /\ DOMAIN daemon \cap ScratchNames = {}
          /\ lifecycleCalls = 0

\* builder common [B, A] against run common [A]: B is missing, Build has failed
C6_Witness ==
    /\ builderImage.CommonMixins = <<"B", "A">>
    /\ runImage.CommonMixins = <<"A">>
    /\ buildResult.returned
    /\ buildResult.err.kind = "validating stack mixins"
    /\ buildResult.err.cause.missing = <<"B">>

\* C7: Save on a builder whose buildpack was never set returns the error that
\* a buildpack must be set and no image, whatever dependencies were added, and
\* creates no image.
C7_NoBuildpackFails ==
    (spc # "idle" /\ buildpack = NilBuildpack) =>
        /\ spc = "returned"
        /\ saveResult.err = [kind |-> "BuildpackMustBeSet"]
        /\ saveResult.image = NilImage
        /\ NoImageIO

\* Save returned on a builder with dependencies and no buildpack
C7_Witness ==
    /\ spc = "returned"
    /\ buildpack = NilBuildpack
    /\ Len(dependencies) > 0
    /\ saveResult.err = [kind |-> "BuildpackMustBeSet"]

\* the indexes of the dependencies that are not meta-buildpacks
NonMetaDeps == {i \in DOMAIN dependencies : Len(dependencies[i].Order) = 0}

\* a stack the package starts from that dependency i has no entry for
UnsupportedStackOf(i) ==
    {buildpack.Stacks[k].ID : k \in DOMAIN buildpack.Stacks} \ StackIDsOf(dependencies[i].Stacks)

\* C9: when some buildpack with an empty Order, included with the package, has
\* no entry for one of the stacks the package declares (the stacks Save starts
\* from), Save fails with an unsupported-stack error.
C9_UnsupportedStackFails ==
    (spc # "idle" /\ buildpack # NilBuildpack
        /\ \E i \in NonMetaDeps : UnsupportedStackOf(i) # {}) =>
        /\ spc = "returned"
        /\ saveResult.err.kind = "NoCommonStack"

\* the mixins dependency i requires on stack entry k of the package that the
\* entry does not have
MissingMixinsOf(i, k) ==
    IF buildpack.Stacks[k].ID \in StackIDsOf(dependencies[i].Stacks)
    THEN MixinsFor(dependencies[i].Stacks, buildpack.Stacks[k].ID) \ buildpack.Stacks[k].Mixins
    ELSE {}

\* C10: when a buildpack with an empty Order, included with the package,
\* requires on a declared stack mixins that the declared stack does not have,
\* Save fails with a missing-mixins error that lists exactly those mixins.
C10_MissingMixinsFails ==
    (spc # "idle" /\ buildpack # NilBuildpack) =>
        \A i \in NonMetaDeps : \A k \in DOMAIN buildpack.Stacks :
            MissingMixinsOf(i, k) # {} =>
                /\ spc = "returned"
                /\ saveResult.err.kind = "MissingMixins"
                /\ saveResult.err.missing = SortSet(MissingMixinsOf(i, k))

\* the stack IDs that the buildpack and every dependency declare
OverlappingStackIDs ==
    {id \in StackIDsOf(buildpack.Stacks) :
        \A i \in DOMAIN dependencies : id \in StackIDsOf(dependencies[i].Stacks)}

\* every dependency declares each stack of the buildpack, and one declares more
DependenciesDeclareMore ==
    /\ buildpack # NilBuildpack
    /\ Len(buildpack.Stacks) > 0
    /\ Len(dependencies) > 0
    /\ \A i \in DOMAIN dependencies :
          StackIDsOf(buildpack.Stacks) \subseteq StackIDsOf(dependencies[i].Stacks)
    /\ \E i \in DOMAIN dependencies :
          StackIDsOf(dependencies[i].Stacks) # StackIDsOf(buildpack.Stacks)

\* C11: when the buildpacks included with the package declare more stacks than
\* the package (the stacks Save starts from), Save fails none of its checks,
\* and the metadata label it writes carries the ID and Version of the
\* buildpack and lists exactly the stacks that the package and every included
\* buildpack declare, never a stack the package does not declare.
C11_LabelListsOverlappingStacks ==
    /\ (spc # "idle" /\ DependenciesDeclareMore) =>
          /\ ~FailedValidation
          /\ ValidateSave(buildpack, dependencies).err = NoError
    /\ MetadataLabel \in DOMAIN imgLabels =>
          /\ imgLabels[MetadataLabel].BuildpackInfo = buildpack.Info
          /\ StackIDsOf(imgLabels[MetadataLabel].Stacks) = OverlappingStackIDs
          /\ StackIDsOf(imgLabels[MetadataLabel].Stacks) \subseteq StackIDsOf(buildpack.Stacks)
    /\ (spc = "returned" /\ saveResult.err = NoError) => MetadataLabel \in DOMAIN imgLabels

\* the package declares stack.id.1, a dependency stack.id.1 and stack.id.2:
\* Save returned the image, whose label lists stack.id.1 only
C11_Witness ==
    /\ spc = "returned"
    /\ saveResult.err = NoError
    /\ DependenciesDeclareMore
    /\ StackIDsOf(buildpack.Stacks) = {"stack.id.1"}
    /\ \E i \in DOMAIN dependencies :
          StackIDsOf(dependencies[i].Stacks) = {"stack.id.1", "stack.id.2"}
    /\ StackIDsOf(imgLabels[MetadataLabel].Stacks) = {"stack.id.1"}
    /\ imgLabels[MetadataLabel].BuildpackInfo = buildpack.Info

\* the stack IDs that a list of stacks has more than once
DuplicatedStackIDs(stks) ==
    {stks[i].ID : i \in {j \in DOMAIN stks : \E k \in DOMAIN stks : k # j /\ stks[k].ID = stks[j].ID}}

\* C12: when the stacks the package declares (the stacks Save starts from)
\* list the same stack ID more than once, Save fails with an error that names
\* the duplicated ID, and no image is produced.
C12_DuplicateStackFails ==
    (spc # "idle" /\ buildpack # NilBuildpack
        /\ DuplicatedStackIDs(buildpack.Stacks) # {}) =>
        /\ spc = "returned"
        /\ saveResult.err.kind = "DuplicateStack"
        /\ saveResult.err.stack \in DuplicatedStackIDs(buildpack.Stacks)
        /\ NoImageIO

\* C13: Save fails with the no-stacks error when the stack list it starts
\* from (the buildpack's own) is empty and the buildpack's Order is empty, and
\* then creates no image; it never fails with that error when the buildpack
\* has a non-empty Order or declares a stack.
C13_NoStacksNoOrderFails ==
    /\ (spc # "idle" /\ buildpack # NilBuildpack
          /\ Len(buildpack.Stacks) = 0 /\ Len(buildpack.Order) = 0) =>
          /\ spc = "returned"
          /\ saveResult.err = [kind |-> "NoStackNoOrder", buildpack |-> buildpack.Info]
          /\ saveResult.image = NilImage
          /\ NoImageIO
    /\ (spc = "returned" /\ saveResult.err.kind = "NoStackNoOrder") =>
          /\ buildpack # NilBuildpack
          /\ Len(buildpack.Stacks) = 0
          /\ Len(buildpack.Order) = 0

\* Save returned the no-stacks error for a buildpack with no stacks and no
\* order, dependencies that declare stacks notwithstanding
C13_Witness ==
    /\ spc = "returned"
    /\ saveResult.err.kind = "NoStackNoOrder"
    /\ Len(buildpack.Stacks) = 0
    /\ Len(buildpack.Order) = 0
    /\ Len(dependencies) > 0

\* the buildpack is a meta-buildpack that declares no stack, and every
\* dependency declares one
MetaBuildpackWithDependencies ==
    /\ buildpack # NilBuildpack
    /\ Len(buildpack.Order) > 0
    /\ Len(buildpack.Stacks) = 0
    /\ Len(dependencies) > 0
    /\ \A i \in DOMAIN dependencies : Len(dependencies[i].Stacks) > 0

\* C14: Save does not fail its stack checks because of a buildpack whose Order
\* is non-empty: a package whose buildpack is a meta-buildpack that declares no
\* stack, with dependencies that declare stacks, passes the checks of Save.
C14_MetaBuildpackExempt ==
    (spc # "idle" /\ MetaBuildpackWithDependencies) => ~FailedValidation

\* Build went past the validation of the run image
PastValidateRunImage == "processBuildpacks" \in Range(steps) \/ bpc = "processBuildpacks"

\* C15: Build goes past the validation of the run image only if the run
\* image's stack ID equals the builder's; when the run image was fetched, its
\* stack ID read, and it differs from the builder's, Build fails with the
\* stack-mismatch error that names both IDs; on a mismatch no buildpack is
\* downloaded, no ephemeral builder is composed and the lifecycle is not
\* executed.
C15_RunImageStackMustMatch ==
    /\ PastValidateRunImage => runImage.StackID = builderImage.StackID
    /\ ("validateRunImage" \in Range(steps) /\ runImage.StackID # builderImage.StackID) =>
          /\ buildResult.returned
          /\ buildResult.err.kind = "invalid run-image"
          /\ buildResult.err.cause.kind \notin {"fetch run image", "invalid stack image"} =>
                buildResult.err.cause =
                    [kind |-> "run-image stack mismatch", run |-> runImage.StackID,
                     builder |-> builderImage.StackID]
          /\ ~PastValidateRunImage
          /\ downloads = <<>>
          /\ fetchedBPs = <<>>
          /\ ephemeralBuilderImage = NilImage
          /\ DOMAIN daemon \cap ScratchNames = {}
          /\ lifecycleCalls = 0

\* a run image of stack.id.2 against a builder of stack.id.1, with a buildpack
\* to download among the requested ones: Build failed, nothing was downloaded
C15_Witness ==
    /\ buildResult.returned
    /\ buildResult.err.kind = "invalid run-image"
    /\ buildResult.err.cause =
          [kind |-> "run-image stack mismatch", run |-> "stack.id.2", builder |-> "stack.id.1"]
    /\ \E i \in DOMAIN opts.Buildpacks : opts.Buildpacks[i].downloadOK
    /\ downloads = <<>>

\* no stack ID is listed twice
UniqueIDs(stks) == DuplicatedStackIDs(stks) = {}

\* the mixins of the entry of a list for a stack ID
MixinsOfID(stks, id) == (CHOOSE t \in Range(stks) : t.ID = id).Mixins

\* C16: for stack lists a and b that list no ID twice, MergeCompatible(a, b)
\* has one entry for each stack ID that is in both a and b and no other entry,
\* each with the union of the mixins a and b declare for that ID; when a and b
\* share no ID the result is empty.
C16_MergeKeepsSharedIDsWithUnion ==
    (mCall = "MergeCompatible" /\ UniqueIDs(mA) /\ UniqueIDs(mB)) =>
        /\ StackIDsOf(mOut) = StackIDsOf(mA) \cap StackIDsOf(mB)
        /\ UniqueIDs(mOut)
        /\ \A i \in DOMAIN mOut :
              mOut[i].Mixins = MixinsOfID(mA, mOut[i].ID) \cup MixinsOfID(mB, mOut[i].ID)
        /\ StackIDsOf(mA) \cap StackIDsOf(mB) = {} => mOut = <<>>

\* stack.id.1 with {A} and stack.id.2 merged with stack.id.1 with {B}:
\* stack.id.1 with {A, B}
C16_Witness ==
    /\ mCall = "MergeCompatible"
    /\ mA = <<Stack("stack.id.1", {"A"}), Stack("stack.id.2", {})>>
    /\ mB = <<Stack("stack.id.1", {"B"})>>
    /\ mOut = <<Stack("stack.id.1", {"A", "B"})>>

\* a buildpack that declares no stack and has an order
IsMetaBuildpack(bp) == Len(bp.Stacks) = 0 /\ Len(bp.Order) > 0

\* the buildpacks validateMixins goes through: the builder's and the fetched ones
ValidatedBuildpacks == builderImage.BuildpackLayers \cup Range(fetchedBPs)

\* the stack IDs and mixin lists EnsureStackSupport is tried on
TriedStackIDs == StackIDs \cup {"stack.id.other"}

\* C17: EnsureStackSupport on a buildpack with no stacks and a non-empty Order
\* returns no error, for every stack ID, every list of available mixins and
\* either value of requireMixins; and when validateMixins fails in Build on a
\* buildpack, that buildpack is not such a meta-buildpack, be it one of the
\* builder's or a fetched one.
C17_MetaBuildpackNeverFailsStackSupport ==
    /\ \A bp \in ValidatedBuildpacks :
          IsMetaBuildpack(bp) =>
              \A id \in TriedStackIDs, ms \in MixinLists, requireMixins \in BOOLEAN :
                  EnsureStackSupport(bp, id, ms, requireMixins) = NoError
    /\ (buildResult.err.kind = "validating stack mixins"
          /\ buildResult.err.cause.kind \in {"StackMismatch", "MissingMixins"}) =>
          /\ \E bp \in ValidatedBuildpacks :
                bp.Info = buildResult.err.cause.buildpack /\ ~IsMetaBuildpack(bp)
          /\ \A bp \in ValidatedBuildpacks :
                IsMetaBuildpack(bp) => bp.Info # buildResult.err.cause.buildpack

\* Build went past validateMixins with a meta-buildpack in the builder and a
\* fetched one, on a builder stack that neither declares
C17_Witness ==
    /\ bpc = "createEphemeralBuilder"
    /\ \E bp \in builderImage.BuildpackLayers : IsMetaBuildpack(bp)
    /\ \E i \in DOMAIN fetchedBPs : IsMetaBuildpack(fetchedBPs[i])

\* the steps of Build in the order of its statements
BuildSteps ==
    <<"parseTagReference", "processAppPath", "processBuilderName", "fetchBuilder",
      "newBuilderImage", "resolveRunImage", "validateRunImage", "processBuildpacks",
      "validateMixins", "createEphemeralBuilder", "platformAPI", "lifecycle">>

IsPrefix(s, t) == Len(s) <= Len(t) /\ \A i \in DOMAIN s : s[i] = t[i]

\* the requested buildpacks that are locations to download, in their order
RequestedLocations ==
    LET locs == SelectSeq(opts.Buildpacks, LAMBDA tok : ~isBuildpackID(tok))
    IN  [i \in DOMAIN locs |-> locs[i].parts]

\* what the steps before the lifecycle need to have succeeded, as far as the
\* inputs of Build decide it
InputsPassEveryStep ==
    /\ opts.Builder # ""
    /\ runImageName # ""
    /\ runImage.StackID = builderImage.StackID
    /\ processBuildpacks(opts.Buildpacks).err = NoError
    /\ \E embeddedOrder \in Orderings(builderImage.BuildpackLayers) :
          validateMixins(fetchedBPs, builderImage, RunView, embeddedOrder) = NoError

\* C18: in every execution of Build the steps are entered in the order of
\* its statements, each at most once; the lifecycle is executed at most once
\* and only after every earlier step was entered and passed; a step that
\* fails is the last step entered, and after it nothing is fetched or
\* downloaded again; the builder and the run image are fetched at most once
\* each and every requested location is downloaded at most once; Build
\* returns no error exactly when the lifecycle was executed and returned none.
C18_LifecycleLastAfterEveryStep ==
    /\ [](/\ IsPrefix(steps, BuildSteps)
          /\ lifecycleCalls <= 1
          /\ lifecycleCalls = 1 <=> "lifecycle" \in Range(steps)
          /\ lifecycleCalls = 1 => (steps = BuildSteps /\ InputsPassEveryStep)
          /\ IsPrefix(fetches, <<opts.Builder, runImageName>>)
          /\ IsPrefix(downloads, RequestedLocations)
          /\ bpc \in {"runDeferred", "returned"} =>
                /\ buildResult.err = NoError =>
                      (lifecycleCalls = 1 /\ steps = BuildSteps)
                /\ (buildResult.err # NoError /\ lifecycleCalls = 1) =>
                      buildResult.err = [kind |-> "lifecycle failed"]
                /\ lifecycleCalls = 0 => buildResult.err # NoError
          /\ buildResult.returned => bpc = "returned")
    /\ [][(bpc \in {"runDeferred", "returned"}) =>
            (/\ steps' = steps
             /\ fetches' = fetches
             /\ downloads' = downloads
             /\ lifecycleCalls' = lifecycleCalls
             /\ buildResult'.err = buildResult.err)]_vars

\* Build failed at the download of its second requested buildpack: the first
\* was downloaded once, no later step was entered, the lifecycle was not run
C18_Witness ==
    /\ buildResult.returned
    /\ buildResult.err.kind = "downloading buildpack"
    /\ Len(downloads) = 2
    /\ Len(fetches) = 2
    /\ steps = SubSeq(BuildSteps, 1, 8)
    /\ lifecycleCalls = 0

\* a list of mixins in the order of sort.Strings
IsSorted(s) == \A i, j \in DOMAIN s : i < j => MixinRank(s[i]) <= MixinRank(s[j])

\* t is s with some of its elements left out
RECURSIVE IsSubSeq(_, _)
IsSubSeq(t, s) ==
    IF t = <<>> THEN TRUE
    ELSE IF s = <<>> THEN FALSE
    ELSE IF Head(t) = Head(s) THEN IsSubSeq(Tail(t), Tail(s))
    ELSE IsSubSeq(t, Tail(s))

\* C19 as the spec states it: findMissing(actual, required) returns the
\* elements of required that are not in actual, in sorted order whatever the
\* order of required, and nothing when required is empty.
C19_FindMissingSorted ==
    mCall = "findMissing" =>
        /\ Range(mOut) = Range(mBuilder.CommonMixins) \ Range(mRun.CommonMixins)
        /\ IsSorted(mOut)
        /\ mBuilder.CommonMixins = <<>> => mOut = <<>>

\* C19 (amended): findMissing(actual, required) returns the elements of
\* required that are not in actual, in the order in which required lists
\* them (repeated as often as required repeats them), and nothing when
\* required is empty; the sorting is done by validateCommonMixins, whose
\* error lists the missing mixins sorted.
C19_FindMissingInRequiredOrder ==
    /\ mCall = "findMissing" =>
          /\ Range(mOut) = Range(mBuilder.CommonMixins) \ Range(mRun.CommonMixins)
          /\ IsSubSeq(mOut, mBuilder.CommonMixins)
          /\ \A m \in Range(mOut) :
                Cardinality({i \in DOMAIN mOut : mOut[i] = m})
                    = Cardinality({i \in DOMAIN mBuilder.CommonMixins :
                                      mBuilder.CommonMixins[i] = m})
          /\ mBuilder.CommonMixins = <<>> => mOut = <<>>
    /\ (mCall = "validateCommonMixins" /\ mOut # NoError) =>
          /\ IsSorted(mOut.missing)
          /\ Range(mOut.missing) = Range(mBuilder.CommonMixins) \ Range(mRun.CommonMixins)

\* required [B, A] against an empty actual: findMissing returned [B, A]
C19_Witness ==
    /\ mCall = "findMissing"
    /\ mBuilder.CommonMixins = <<"B", "A">>
    /\ mRun.CommonMixins = <<>>
    /\ mOut = <<"B", "A">>

\* the composed images the daemon holds
ComposedImages == {daemon[n] : n \in DOMAIN daemon \cap ScratchNames}

\* C20: the image createEphemeralBuilder composes has, when the group of the
\* requested buildpacks is not empty, an order of exactly one entry, that
\* group, whatever order the base builder has; when the group is empty, which
\* is when no buildpack was requested, it has the order of the base builder.
C20_CustomOrderReplacesBaseOrder ==
    \A img \in ComposedImages :
        /\ Len(group) = Len(opts.Buildpacks)
        /\ Len(group) > 0 => (img.Order = <<group>> /\ Len(img.Order) = 1)
        /\ Len(group) = 0 => img.Order = builderImage.Order

\* a base builder with an order of its own, composed with a requested group
\* of two buildpacks: the composed image's order is that group alone
C20_Witness ==
    /\ bpc = "platformAPI"
    /\ Len(group) = 2
    /\ builderImage.Order = SomeOrder
    /\ <<group>> # SomeOrder
    /\ ephemeralBuilderImage.Name \in DOMAIN daemon
    /\ daemon[ephemeralBuilderImage.Name].Order = <<group>>
    /\ daemon[opts.Builder].Order = SomeOrder

\* a token that is not a URI and is not the path of an existing file
IsIDReference(tok) == ~tok.isURI /\ ~tok.exists

\* a location whose check, download or parsing fails
FailsAsLocation(tok) ==
    ~IsIDReference(tok) /\ (~tok.supported \/ ~tok.downloadOK \/ ~tok.parseOK)

\* the positions of the requested tokens that fail
FailingPositions == {i \in DOMAIN opts.Buildpacks : FailsAsLocation(opts.Buildpacks[i])}

\* the first of them
FirstFailing == CHOOSE i \in FailingPositions : \A j \in FailingPositions : i <= j

\* the locations among the first n requested tokens, in their order
LocationsUpTo(n) ==
    SelectSeq(SubSeq(opts.Buildpacks, 1, n), LAMBDA tok : ~IsIDReference(tok))

\* Build went past processBuildpacks
PastProcessBuildpacks == "validateMixins" \in Range(steps) \/ bpc = "validateMixins"

\* C21: processBuildpacks takes a requested token as an ID reference iff it is
\* not a URI and not an existing path, and else as a location. When no token
\* fails, each location is downloaded once and no ID reference is, the
\* buildpacks returned are those parsed from the locations in the order of
\* the request, and the group has one reference per token in that order: the
\* parsed ID and version for an ID reference, the Info of the parsed buildpack
\* for a location. When a token fails, no buildpack and an empty group are
\* returned, and no token after the first failing one is downloaded.
C21_TokensResolvedInRequestOrder ==
    /\ PastProcessBuildpacks =>
          LET locs == LocationsUpTo(Len(opts.Buildpacks))
          IN  /\ FailingPositions = {}
              /\ downloads = [i \in DOMAIN locs |-> locs[i].parts]
              /\ fetchedBPs = [i \in DOMAIN locs |-> locs[i].bp]
              /\ group = [i \in DOMAIN opts.Buildpacks |->
                             IF IsIDReference(opts.Buildpacks[i])
                             THEN parseBuildpack(opts.Buildpacks[i])
                             ELSE opts.Buildpacks[i].bp.Info]
    /\ ("processBuildpacks" \in Range(steps) /\ FailingPositions # {}) =>
          LET tok  == opts.Buildpacks[FirstFailing]
              locs == LocationsUpTo(IF tok.supported THEN FirstFailing
                                    ELSE FirstFailing - 1)
          IN  /\ ~PastProcessBuildpacks
              /\ buildResult.returned
              /\ buildResult.err.kind \in {"checking buildpack path",
                                            "downloading buildpack", "creating buildpack"}
              /\ buildResult.err.token = tok.parts
              /\ fetchedBPs = <<>>
              /\ group = <<>>
              /\ downloads = [i \in DOMAIN locs |-> locs[i].parts]
    /\ \A i \in DOMAIN opts.Buildpacks :
          IsIDReference(opts.Buildpacks[i]) => opts.Buildpacks[i].parts \notin Range(downloads)

\* an ID reference and then a local path were requested: one download, one
\* buildpack, a group of two
C21_Witness ==
    /\ bpc = "validateMixins"
    /\ Len(opts.Buildpacks) = 2
    /\ IsIDReference(opts.Buildpacks[1])
    /\ opts.Buildpacks[2].exists
    /\ downloads = <<opts.Buildpacks[2].parts>>
    /\ fetchedBPs = <<opts.Buildpacks[2].bp>>
    /\ group = <<parseBuildpack(opts.Buildpacks[1]), opts.Buildpacks[2].bp.Info>>

\* Save returned the image
SaveSucceeded == spc = "returned" /\ saveResult.err = NoError

\* what the BuildpackLayers label is to record for included buildpack i
OwnEntry(i) ==
    [Stacks |-> AllBuildpacks[i].Stacks, Order |-> AllBuildpacks[i].Order,
     LayerDiffID |-> LayerDiffID(imgLayers[i])]

\* no buildpack included after buildpack i has its ID and version
LastOfItsInfo(i) ==
    \A j \in DOMAIN AllBuildpacks : j > i => AllBuildpacks[j].Info # AllBuildpacks[i].Info

\* C22 as the spec states it: after a successful Save the image has one layer
\* per included buildpack, the dependencies as added and then the buildpack,
\* and the BuildpackLayers label has for every included buildpack an entry
\* under its ID and version with that buildpack's own Stacks, its Order and
\* the diffID of its layer.
C22_EveryBuildpackHasOwnEntry ==
    SaveSucceeded =>
        /\ Len(imgLayers) = Len(dependencies) + 1
        /\ imgLayers = ExpectedLayers
        /\ BuildpackLayersLabel \in DOMAIN imgLabels
        /\ \A i \in DOMAIN AllBuildpacks :
              /\ AllBuildpacks[i].Info \in DOMAIN imgLabels[BuildpackLayersLabel]
              /\ imgLabels[BuildpackLayersLabel][AllBuildpacks[i].Info] = OwnEntry(i)

\* C22 (amended): after a successful Save the image has one layer per included
\* buildpack, the dependencies as added and then the buildpack, and the
\* BuildpackLayers label has one entry for each ID and version among the
\* included buildpacks and no other; the entry has the own Stacks, the Order
\* and the layer's diffID of the last included buildpack with that ID and
\* version, so every buildpack whose ID and version no later one shares has
\* its own.
C22_LastBuildpackOfAnInfoHasEntry ==
    SaveSucceeded =>
        /\ Len(imgLayers) = Len(dependencies) + 1
        /\ imgLayers = ExpectedLayers
        /\ BuildpackLayersLabel \in DOMAIN imgLabels
        /\ DOMAIN imgLabels[BuildpackLayersLabel]
              = {AllBuildpacks[i].Info : i \in DOMAIN AllBuildpacks}
        /\ \A i \in DOMAIN AllBuildpacks :
              LastOfItsInfo(i) =>
                  imgLabels[BuildpackLayersLabel][AllBuildpacks[i].Info] = OwnEntry(i)

\* Save returned the image of a buildpack with two dependencies, one of which
\* declares other stacks than the merged ones and has them in its entry, and
\* one of which has the ID and version of a later buildpack with other stacks
C22_Witness ==
    /\ SaveSucceeded
    /\ Len(imgLayers) = 3
    /\ \E i \in DOMAIN AllBuildpacks :
          /\ AllBuildpacks[i].Stacks # stacks
          /\ imgLabels[BuildpackLayersLabel][AllBuildpacks[i].Info].Stacks
                = AllBuildpacks[i].Stacks
    /\ \E i \in DOMAIN AllBuildpacks :
          /\ ~LastOfItsInfo(i)
          /\ imgLabels[BuildpackLayersLabel][AllBuildpacks[i].Info] # OwnEntry(i)

\* the dependencies in every order in which they could have been added
PermutedDependencies ==
    {[i \in DOMAIN dependencies |-> dependencies[p[i]]] :
        p \in {f \in [DOMAIN dependencies -> DOMAIN dependencies] :
                  \A i, j \in DOMAIN dependencies : f[i] = f[j] => i = j}}

\* the mixins the buildpack and the dependencies declare for a stack ID
AllMixinsFor(id) ==
    MixinsFor(buildpack.Stacks, id)
        \cup UNION {MixinsFor(dependencies[i].Stacks, id) : i \in DOMAIN dependencies}

\* C23: the stack list Save writes to the metadata label is the fold of
\* MergeCompatible over the buildpack's stacks and each dependency's; its
\* stack IDs are those that the buildpack and every dependency declare (the
\* buildpack's own stacks when there is no dependency), each with the mixins
\* that any of them declares for it; Save passes its stack checks exactly when
\* the buildpack has a stack or an order and, if there are dependencies, some
\* stack ID is declared by all; and neither that nor the set of stacks depends
\* on the order in which the dependencies were added.
C23_LabelStacksAreOrderIndependentFold ==
    /\ (spc # "idle" /\ buildpack # NilBuildpack) =>
          LET v == ValidateSave(buildpack, dependencies)
          IN  /\ v.err = NoError <=>
                    IF dependencies = <<>>
                    THEN Len(buildpack.Stacks) > 0 \/ Len(buildpack.Order) > 0
                    ELSE OverlappingStackIDs # {}
              /\ FailedValidation <=> (spc = "returned" /\ v.err # NoError)
              /\ \A deps \in PermutedDependencies :
                    LET w == ValidateSave(buildpack, deps)
                    IN  /\ w.err = NoError <=> v.err = NoError
                        /\ v.err = NoError => Range(w.stacks) = Range(v.stacks)
    /\ MetadataLabel \in DOMAIN imgLabels =>
          /\ imgLabels[MetadataLabel].Stacks = ValidateSave(buildpack, dependencies).stacks
          /\ Range(imgLabels[MetadataLabel].Stacks)
                = {Stack(id, AllMixinsFor(id)) : id \in OverlappingStackIDs}
          /\ dependencies = <<>> => imgLabels[MetadataLabel].Stacks = buildpack.Stacks

\* two dependencies with different stacks, added to a buildpack that declares
\* one stack more than they share: the label lists the shared stack with the
\* mixins of both
C23_Witness ==
    /\ SaveSucceeded
    /\ Len(dependencies) = 2
    /\ dependencies[1].Stacks # dependencies[2].Stacks
    /\ StackIDsOf(imgLabels[MetadataLabel].Stacks) # StackIDsOf(buildpack.Stacks)
    /\ \E t \in Range(imgLabels[MetadataLabel].Stacks) : t.Mixins = {"A", "B"}

\* createEphemeralBuilder was called and returned an error
CompositionFailed ==
    /\ "createEphemeralBuilder" \in Range(steps)
    /\ ephemeralBuilderImage = NilImage

\* C24: Build defers the removal of the scratch image only once
\* createEphemeralBuilder has returned the image: a removal is deferred or
\* attempted only for the name of the image it returned. When the composition
\* fails, at builder.FromImage or at the save, Build returns that error with
\* no removal deferred or attempted and without executing the lifecycle, and
\* the handle of the base image has the generated scratch name, not the
\* name it was fetched under.
C24_NoRemovalWhenCompositionFails ==
    /\ (deferred # <<>> \/ removeAttempts # <<>>) =>
          /\ ephemeralBuilderImage # NilImage
          /\ \A i \in DOMAIN deferred : deferred[i] = ephemeralBuilderImage.Name
          /\ \A i \in DOMAIN removeAttempts :
                removeAttempts[i][1] = ephemeralBuilderImage.Name
    /\ CompositionFailed =>
          /\ buildResult.returned
          /\ bpc = "returned"
          /\ buildResult.err = [kind |-> "invalid builder", builder |-> opts.Builder]
          /\ deferred = <<>>
          /\ removeAttempts = <<>>
          /\ lifecycleCalls = 0
          /\ "platformAPI" \notin Range(steps)
          /\ rawBuilderImage.Name \in ScratchNames
          /\ rawBuilderImage.Name # opts.Builder

\* the composition failed: Build has returned, the handle is under a scratch
\* name, the daemon holds the base image alone and nothing was removed
C24_Witness ==
    /\ CompositionFailed
    /\ buildResult.returned
    /\ rawBuilderImage.Name \in ScratchNames
    /\ DOMAIN daemon = {opts.Builder}
    /\ removeAttempts = <<>>
    /\ Len(fetchedBPs) > 0

====
